---------------------------- MODULE Spec2Model ----------------------------
(***************************************************************************)
(* Cartridge GPIO bus of the GBA core (src/src/gba/gba-gpio.c): the three  *)
(* GPIO registers, the four pin devices (RTC, gyro, rumble, light sensor), *)
(* the tilt sensor and the save-state copy of all of them.                 *)
(*                                                                         *)
(* The whole struct GBACartridgeGPIO is one record, gpio.  Every C         *)
(* function is an operator from a record to the record it leaves behind,   *)
(* and every entry point is one action.                                    *)
(***************************************************************************)
EXTENDS Integers, Sequences, FiniteSets, TLC

VARIABLES
    gpio,   \* struct GBACartridgeGPIO, the word gpioBase[0] and the host (gpio->p)
    state,  \* struct GBASerializedState's gpio part, NoState before the first save
    op,     \* the entry point called last, with its arguments and what it observed
    frame   \* RTC framing observer: payload size and bytes exchanged since the header

vars == <<gpio, state, op, frame>>

(***************************************************************************)
(* Bounds of the model.                                                    *)
(***************************************************************************)
\* lightCounter is not incremented past this value
MaxLightCounter == 2
\* rtc.bytesRemaining is not decremented below minus this value
MaxUnderflow == 1

(***************************************************************************)
(* Bit operations on naturals (C's &, |, & ~, >> on unsigned values).      *)
(***************************************************************************)
RECURSIVE And(_, _)
And(a, b) ==
    IF a = 0 \/ b = 0 THEN 0
    ELSE (a % 2) * (b % 2) + 2 * And(a \div 2, b \div 2)

Or(a, b) == a + b - And(a, b)

AndNot(a, b) == a - And(a, b)

Pow2(n) == 2 ^ n

Bit(a, i) == (a \div Pow2(i)) % 2

SetBit(a, i, b) == a - Bit(a, i) * Pow2(i) + b * Pow2(i)

(***************************************************************************)
(* Declarations of gba-gpio.h, which the source file includes.             *)
(***************************************************************************)
GPIO_REG_DATA == 0
GPIO_REG_DIRECTION == 1
GPIO_REG_CONTROL == 2

GPIO_WRITE_ONLY == 0
GPIO_READ_WRITE == 1

GPIO_NONE == {}
GPIO_RTC == "RTC"
GPIO_RUMBLE == "RUMBLE"
GPIO_LIGHT_SENSOR == "LIGHT_SENSOR"
GPIO_GYRO == "GYRO"
GPIO_TILT == "TILT"

RTC_RESET == 0
RTC_DATETIME == 2
RTC_FORCE_IRQ == 3
RTC_CONTROL == 4
RTC_TIME == 6

\* the pin and direction bit-fields overlaid on pinState and direction
p0(g) == Bit(g.pinState, 0)
p1(g) == Bit(g.pinState, 1)
p2(g) == Bit(g.pinState, 2)
p3(g) == Bit(g.pinState, 3)
dir1(g) == Bit(g.direction, 1)

\* union RTCCommandData: magic, command index and the reading flag of a packed byte
CommandMagic(packed) == packed \div 16
CommandIndex(packed) == (packed \div 2) % 8
CommandReading(packed) == packed % 2
ClearReading(packed) == packed - CommandReading(packed)

\* union RTCControl: the hour24 flag of the packed control byte
Hour24(packed) == Bit(packed, 6)

(***************************************************************************)
(* RTC_BYTES: payload bytes of each command index.                         *)
(***************************************************************************)
\* a table whose DATETIME entry is one byte long
RTC_BYTES_Long(command) ==
    CASE command = RTC_DATETIME -> 8
      [] command = RTC_CONTROL -> 1
      [] command = RTC_TIME -> 3
      [] OTHER -> 0

\* a table whose DATETIME and TIME entries are one byte short
RTC_BYTES_Short(command) ==
    CASE command = RTC_DATETIME -> 6
      [] command = RTC_CONTROL -> 1
      [] command = RTC_TIME -> 2
      [] OTHER -> 0

RTC_BYTES(command) ==
    CASE command = RTC_DATETIME -> 7
      [] command = RTC_CONTROL -> 1
      [] command = RTC_TIME -> 3
      [] OTHER -> 0

(***************************************************************************)
(* The host (struct GBA, gpio->p): which sources are installed and what    *)
(* each returns when sampled.                                              *)
(***************************************************************************)
\* 2004-03-15, a Monday, 13:37:42 as struct tm
SourceDate ==
    [tm_year |-> 104, tm_mon |-> 2, tm_mday |-> 15, tm_wday |-> 1,
     tm_hour |-> 13, tm_min |-> 37, tm_sec |-> 42]

\* 2026-11-01, a Sunday, 23:59:08 as struct tm
WallDate ==
    [tm_year |-> 126, tm_mon |-> 10, tm_mday |-> 1, tm_wday |-> 0,
     tm_hour |-> 23, tm_min |-> 59, tm_sec |-> 8]

NoHost ==
    [rtcSource |-> FALSE, unixTime |-> SourceDate, wallTime |-> WallDate,
     rotationSource |-> "none", gyroZ |-> 0, tiltX |-> 0, tiltY |-> 0,
     rumble |-> "none", luminanceSource |-> FALSE, luminance |-> 0]

(***************************************************************************)
(* GBAGPIOInit, GBAGPIOClear.                                              *)
(***************************************************************************)
ZeroRTC ==
    [bytesRemaining |-> 0, transferStep |-> 0, bitsRead |-> 0, bits |-> 0,
     commandActive |-> 0, command |-> 0, control |-> 0,
     time |-> <<0, 0, 0, 0, 0, 0, 0>>]

\* the cleared fields as line 46-49 leave them; readWrite is not among them
GBAGPIOClear(g) ==
    [g EXCEPT !.gpioDevices = GPIO_NONE, !.pinState = 0, !.direction = 0]

\* the struct before GBAGPIOInit: readWrite is whatever the memory held (rw);
\* the device fields are not read before the device's own Init sets them;
\* beyond is the byte that a read past the end of rtc.time finds in memory
RawGPIO(host, rw, beyond) ==
    [p |-> host, beyond |-> beyond, gpioBase |-> 0, gpioDevices |-> GPIO_NONE,
     pinState |-> 0, direction |-> 0, readWrite |-> rw,
     rtc |-> ZeroRTC, gyroSample |-> 0, gyroEdge |-> 0,
     lightCounter |-> 0, lightSample |-> 0, lightEdge |-> FALSE,
     tiltX |-> 0, tiltY |-> 0, tiltState |-> 0]

GBAGPIOInit(host, rw, beyond) == GBAGPIOClear(RawGPIO(host, rw, beyond))

(***************************************************************************)
(* _outputPins: a device drives pins.                                      *)
(***************************************************************************)
_outputPins(g, pins) ==
    IF g.readWrite # 0
    THEN LET old == And(g.gpioBase, g.direction)
             ps == Or(old, And(AndNot(pins, g.direction), 15))
         IN  [g EXCEPT !.pinState = ps, !.gpioBase = ps]
    ELSE g

(***************************************************************************)
(* Light sensor.                                                           *)
(***************************************************************************)
GBAGPIOInitLightSensor(g) ==
    [g EXCEPT !.gpioDevices = @ \cup {GPIO_LIGHT_SENSOR},
              !.lightCounter = 0, !.lightEdge = FALSE, !.lightSample = 255]

\* a sensor that counts the level of pin 0 instead of its rising edge
_lightReadPins_NoEdge(g) ==
    IF p2(g) = 1 THEN g
    ELSE LET g1 == IF p1(g) = 1
                   THEN [g EXCEPT !.lightCounter = 0,
                                  !.lightSample = IF g.p.luminanceSource
                                                  THEN g.p.luminance ELSE 255]
                   ELSE g
             g2 == IF p0(g1) = 1
                   THEN [g1 EXCEPT !.lightCounter = @ + 1]
                   ELSE g1
             g3 == [g2 EXCEPT !.lightEdge = (p0(g2) = 0)]
             sendBit == IF g3.lightCounter >= g3.lightSample THEN 1 ELSE 0
         IN  _outputPins(g3, sendBit * 8)

_lightReadPins(g) ==
    IF p2(g) = 1 THEN g
    ELSE LET g1 == IF p1(g) = 1
                   THEN [g EXCEPT !.lightCounter = 0,
                                  !.lightSample = IF g.p.luminanceSource
                                                  THEN g.p.luminance ELSE 255]
                   ELSE g
             g2 == IF p0(g1) = 1 /\ g1.lightEdge
                   THEN [g1 EXCEPT !.lightCounter = @ + 1]
                   ELSE g1
             g3 == [g2 EXCEPT !.lightEdge = (p0(g2) = 0)]
             sendBit == IF g3.lightCounter >= g3.lightSample THEN 1 ELSE 0
         IN  _outputPins(g3, sendBit * 8)

(***************************************************************************)
(* Rumble.                                                                 *)
(***************************************************************************)
GBAGPIOInitRumble(g) == [g EXCEPT !.gpioDevices = @ \cup {GPIO_RUMBLE}]

_rumbleReadPins(g) ==
    IF g.p.rumble = "none" THEN g
    ELSE [g EXCEPT !.p.rumble = IF p3(g) = 1 THEN "on" ELSE "off"]

(***************************************************************************)
(* Gyro.                                                                   *)
(***************************************************************************)
GBAGPIOInitGyro(g) ==
    [g EXCEPT !.gpioDevices = @ \cup {GPIO_GYRO},
              !.gyroSample = 0, !.gyroEdge = 0]

\* sample >> 21 of an int32_t, then + 0x6C0 into the 16-bit gyroSample
GyroNormalize(sample) == ((sample \div 2097152) + 1728) % 65536

_gyroReadPins(g) ==
    IF g.p.rotationSource = "none" THEN g
    ELSE LET g1 == IF p0(g) = 1
                   THEN [g EXCEPT !.gyroSample = GyroNormalize(g.p.gyroZ)]
                   ELSE g
             g2 == IF g1.gyroEdge # 0 /\ p1(g1) = 0
                   THEN _outputPins(
                            [g1 EXCEPT !.gyroSample = (2 * @) % 65536],
                            (g1.gyroSample \div 32768) * 4)
                   ELSE g1
         IN  [g2 EXCEPT !.gyroEdge = p1(g2)]


(***************************************************************************)
(* RTC.                                                                    *)
(***************************************************************************)
GBAGPIOInitRTC(g) ==
    [g EXCEPT !.gpioDevices = @ \cup {GPIO_RTC},
              !.rtc = [ZeroRTC EXCEPT !.control = 64]]

_rtcBCD(value) == (value % 10) + ((value \div 10) % 10) * 16

_rtcUpdateClock(g) ==
    LET date == IF g.p.rtcSource THEN g.p.unixTime ELSE g.p.wallTime
        hour == IF Hour24(g.rtc.control) = 1
                THEN _rtcBCD(date.tm_hour)
                ELSE _rtcBCD(date.tm_hour % 12)
    IN  [g EXCEPT !.rtc.time =
            <<_rtcBCD(date.tm_year - 100) % 256, _rtcBCD(date.tm_mon + 1) % 256,
              _rtcBCD(date.tm_mday) % 256, _rtcBCD(date.tm_wday) % 256,
              hour % 256, _rtcBCD(date.tm_min) % 256, _rtcBCD(date.tm_sec) % 256>>]

\* whether line 238 indexes time[] outside 0..6
TimeIndexOutOfRange(g) ==
    /\ CommandIndex(g.rtc.command) \in {RTC_DATETIME, RTC_TIME}
    /\ 7 - g.rtc.bytesRemaining \notin 0..6

\* an output function that always selects time[0] for DATETIME and TIME
_rtcOutput_FirstByte(g) ==
    LET index == CommandIndex(g.rtc.command)
        outputByte ==
            CASE index = RTC_CONTROL -> g.rtc.control
              [] index \in {RTC_DATETIME, RTC_TIME} ->
                    IF TimeIndexOutOfRange(g) THEN g.beyond
                    ELSE g.rtc.time[1]
              [] OTHER -> 0
    IN  Bit(outputByte, g.rtc.bitsRead)

\* an out-of-range read of time[] yields the byte g.beyond
_rtcOutput(g) ==
    LET index == CommandIndex(g.rtc.command)
        outputByte ==
            CASE index = RTC_CONTROL -> g.rtc.control
              [] index \in {RTC_DATETIME, RTC_TIME} ->
                    IF TimeIndexOutOfRange(g) THEN g.beyond
                    ELSE g.rtc.time[(7 - g.rtc.bytesRemaining) + 1]
              [] OTHER -> 0
    IN  Bit(outputByte, g.rtc.bitsRead)

\* a byte processor that stores the payload of every command in control
_rtcProcessByte_AnyPayload(g) ==
    LET left == g.rtc.bytesRemaining - 1
        g1 == [g EXCEPT !.rtc.bytesRemaining = left]
        command == g.rtc.bits
        index == CommandIndex(command)
        g2 == IF g.rtc.commandActive = 0
              THEN IF CommandMagic(command) = 6
                   THEN LET h == [g1 EXCEPT
                                    !.rtc.command = command,
                                    !.rtc.bytesRemaining = RTC_BYTES(index),
                                    !.rtc.commandActive =
                                        IF RTC_BYTES(index) > 0 THEN 1 ELSE 0]
                        IN  CASE index = RTC_RESET -> [h EXCEPT !.rtc.control = 0]
                              [] index \in {RTC_DATETIME, RTC_TIME} -> _rtcUpdateClock(h)
                              [] OTHER -> h
                   ELSE g1
              ELSE IF TRUE
                   THEN [g1 EXCEPT !.rtc.control = g.rtc.bits]
                   ELSE g1
        g3 == [g2 EXCEPT !.rtc.bits = 0, !.rtc.bitsRead = 0]
    IN  IF g3.rtc.bytesRemaining = 0
        THEN [g3 EXCEPT !.rtc.commandActive = 0,
                        !.rtc.command = ClearReading(@)]
        ELSE g3

\* a byte processor that takes every byte for a command header
_rtcProcessByte_AnyMagic(g) ==
    LET left == g.rtc.bytesRemaining - 1
        g1 == [g EXCEPT !.rtc.bytesRemaining = left]
        command == g.rtc.bits
        index == CommandIndex(command)
        g2 == IF g.rtc.commandActive = 0
              THEN IF TRUE
                   THEN LET h == [g1 EXCEPT
                                    !.rtc.command = command,
                                    !.rtc.bytesRemaining = RTC_BYTES(index),
                                    !.rtc.commandActive =
                                        IF RTC_BYTES(index) > 0 THEN 1 ELSE 0]
                        IN  CASE index = RTC_RESET -> [h EXCEPT !.rtc.control = 0]
                              [] index \in {RTC_DATETIME, RTC_TIME} -> _rtcUpdateClock(h)
                              [] OTHER -> h
                   ELSE g1
              ELSE IF CommandIndex(g.rtc.command) = RTC_CONTROL
                   THEN [g1 EXCEPT !.rtc.control = g.rtc.bits]
                   ELSE g1
        g3 == [g2 EXCEPT !.rtc.bits = 0, !.rtc.bitsRead = 0]
    IN  IF g3.rtc.bytesRemaining = 0
        THEN [g3 EXCEPT !.rtc.commandActive = 0,
                        !.rtc.command = ClearReading(@)]
        ELSE g3

_rtcProcessByte(g) ==
    LET left == g.rtc.bytesRemaining - 1
        g1 == [g EXCEPT !.rtc.bytesRemaining = left]
        command == g.rtc.bits
        index == CommandIndex(command)
        g2 == IF g.rtc.commandActive = 0
              THEN IF CommandMagic(command) = 6
                   THEN LET h == [g1 EXCEPT
                                    !.rtc.command = command,
                                    !.rtc.bytesRemaining = RTC_BYTES(index),
                                    !.rtc.commandActive =
                                        IF RTC_BYTES(index) > 0 THEN 1 ELSE 0]
                        IN  CASE index = RTC_RESET -> [h EXCEPT !.rtc.control = 0]
                              [] index \in {RTC_DATETIME, RTC_TIME} -> _rtcUpdateClock(h)
                              [] OTHER -> h
                   ELSE g1
              ELSE IF CommandIndex(g.rtc.command) = RTC_CONTROL
                   THEN [g1 EXCEPT !.rtc.control = g.rtc.bits]
                   ELSE g1
        g3 == [g2 EXCEPT !.rtc.bits = 0, !.rtc.bitsRead = 0]
    IN  IF g3.rtc.bytesRemaining = 0
        THEN [g3 EXCEPT !.rtc.commandActive = 0,
                        !.rtc.command = ClearReading(@)]
        ELSE g3

\* a transfer whose abort returns to step 0 but keeps the byte count
_rtcReadPins_AbortKeepsCount(g) ==
    CASE g.rtc.transferStep = 0 ->
            IF And(g.pinState, 5) = 1 THEN [g EXCEPT !.rtc.transferStep = 1] ELSE g
      [] g.rtc.transferStep = 1 ->
            IF And(g.pinState, 5) = 5 THEN [g EXCEPT !.rtc.transferStep = 2] ELSE g
      [] g.rtc.transferStep = 2 ->
            IF p0(g) = 0
            THEN [g EXCEPT !.rtc.bits = SetBit(@, g.rtc.bitsRead, p1(g))]
            ELSE IF p2(g) = 1
                 THEN IF dir1(g) = 1
                      THEN LET g1 == [g EXCEPT !.rtc.bitsRead = @ + 1]
                           IN  IF g1.rtc.bitsRead = 8 THEN _rtcProcessByte(g1) ELSE g1
                      ELSE LET g1 == _outputPins(g, Or(5, _rtcOutput(g) * 2))
                               g2 == [g1 EXCEPT !.rtc.bitsRead = @ + 1]
                               g3 == [g2 EXCEPT !.rtc.bytesRemaining = @ - 1]
                           IN  IF g2.rtc.bitsRead = 8
                               THEN IF g3.rtc.bytesRemaining <= 0
                                    THEN [g3 EXCEPT !.rtc.commandActive = 0,
                                                    !.rtc.command = ClearReading(@),
                                                    !.rtc.bitsRead = 0]
                                    ELSE [g3 EXCEPT !.rtc.bitsRead = 0]
                               ELSE g2
                 ELSE [g EXCEPT !.rtc.bitsRead = 0, !.rtc.transferStep = 0]
      [] OTHER -> g

\* a handshake that advances on SCK high whatever CS is, and never transfers
_rtcReadPins_AnyClock(g) ==
    CASE g.rtc.transferStep = 0 ->
            IF p0(g) = 1 THEN [g EXCEPT !.rtc.transferStep = 1] ELSE g
      [] g.rtc.transferStep = 1 ->
            IF p0(g) = 1 THEN [g EXCEPT !.rtc.transferStep = 2] ELSE g
      [] OTHER -> g

_rtcReadPins(g) ==
    CASE g.rtc.transferStep = 0 ->
            IF And(g.pinState, 5) = 1 THEN [g EXCEPT !.rtc.transferStep = 1] ELSE g
      [] g.rtc.transferStep = 1 ->
            IF And(g.pinState, 5) = 5 THEN [g EXCEPT !.rtc.transferStep = 2] ELSE g
      [] g.rtc.transferStep = 2 ->
            IF p0(g) = 0
            THEN [g EXCEPT !.rtc.bits = SetBit(@, g.rtc.bitsRead, p1(g))]
            ELSE IF p2(g) = 1
                 THEN IF dir1(g) = 1
                      THEN LET g1 == [g EXCEPT !.rtc.bitsRead = @ + 1]
                           IN  IF g1.rtc.bitsRead = 8 THEN _rtcProcessByte(g1) ELSE g1
                      ELSE LET g1 == _outputPins(g, Or(5, _rtcOutput(g) * 2))
                               g2 == [g1 EXCEPT !.rtc.bitsRead = @ + 1]
                               g3 == [g2 EXCEPT !.rtc.bytesRemaining = @ - 1]
                           IN  IF g2.rtc.bitsRead = 8
                               THEN IF g3.rtc.bytesRemaining <= 0
                                    THEN [g3 EXCEPT !.rtc.commandActive = 0,
                                                    !.rtc.command = ClearReading(@),
                                                    !.rtc.bitsRead = 0]
                                    ELSE [g3 EXCEPT !.rtc.bitsRead = 0]
                               ELSE g2
                 ELSE [g EXCEPT !.rtc.bitsRead = 0, !.rtc.bytesRemaining = 0,
                                !.rtc.commandActive = 0,
                                !.rtc.command = ClearReading(@),
                                !.rtc.transferStep = 0]
      [] OTHER -> g

(***************************************************************************)
(* _readPins and GBAGPIOWrite.                                             *)
(***************************************************************************)
_readPins(g) ==
    LET g1 == IF GPIO_RTC \in g.gpioDevices THEN _rtcReadPins(g) ELSE g
        g2 == IF GPIO_GYRO \in g1.gpioDevices THEN _gyroReadPins(g1) ELSE g1
        g3 == IF GPIO_RUMBLE \in g2.gpioDevices THEN _rumbleReadPins(g2) ELSE g2
    IN  IF GPIO_LIGHT_SENSOR \in g3.gpioDevices THEN _lightReadPins(g3) ELSE g3

\* lines 55-56: the pins the devices observe in this update
DataMerge(g, value) == Or(AndNot(g.pinState, g.direction), value)

\* lines 68-74
Publish(g) ==
    IF g.readWrite # 0
    THEN [g EXCEPT !.gpioBase = Or(AndNot(g.gpioBase, g.direction), g.pinState)]
    ELSE [g EXCEPT !.gpioBase = 0]

GBAGPIOWrite(g, address, value) ==
    Publish(
        CASE address = GPIO_REG_DATA ->
                _readPins([g EXCEPT !.pinState = DataMerge(g, value)])
          [] address = GPIO_REG_DIRECTION -> [g EXCEPT !.direction = value]
          [] address = GPIO_REG_CONTROL -> [g EXCEPT !.readWrite = value]
          [] OTHER -> g)

(***************************************************************************)
(* Tilt sensor.                                                            *)
(***************************************************************************)
GBAGPIOInitTilt(g) ==
    [g EXCEPT !.gpioDevices = @ \cup {GPIO_TILT},
              !.tiltX = 4095, !.tiltY = 4095, !.tiltState = 0]

\* x >> 21 of an int32_t, then + 0x3A0 into the 16-bit tiltX / tiltY
TiltNormalize(x) == ((x \div 2097152) + 928) % 65536

\* a tilt sensor that latches on 0xAA whether or not it was unlocked
GBAGPIOTiltWrite_NoUnlock(g, address, value) ==
    IF address = 33024 /\ value = 170 /\ g.p.rotationSource = "full"
    THEN [g EXCEPT !.tiltState = 0,
                   !.tiltX = TiltNormalize(g.p.tiltX),
                   !.tiltY = TiltNormalize(g.p.tiltY)]
    ELSE IF address = 32768 /\ value = 85 THEN [g EXCEPT !.tiltState = 1] ELSE g

GBAGPIOTiltWrite(g, address, value) ==
    CASE address = 32768 ->
            IF value = 85 THEN [g EXCEPT !.tiltState = 1] ELSE g
      [] address = 33024 ->
            IF value = 170 /\ g.tiltState = 1
            THEN IF g.p.rotationSource # "full"
                 THEN [g EXCEPT !.tiltState = 0]
                 ELSE [g EXCEPT !.tiltState = 0,
                                !.tiltX = TiltNormalize(g.p.tiltX),
                                !.tiltY = TiltNormalize(g.p.tiltY)]
            ELSE g
      [] OTHER -> g

GBAGPIOTiltRead(g, address) ==
    CASE address = 33280 -> And(g.tiltX, 255)
      [] address = 33536 -> Or(And(g.tiltX \div 256, 15), 128)
      [] address = 33792 -> And(g.tiltY, 255)
      [] address = 34048 -> And(g.tiltY \div 256, 15)
      [] OTHER -> 255

(***************************************************************************)
(* Serialization.                                                          *)
(***************************************************************************)
NoState == [saved |-> FALSE]

GBAGPIOSerialize(g) ==
    [saved |-> TRUE,
     readWrite |-> g.readWrite, pinState |-> g.pinState,
     pinDirection |-> g.direction, devices |-> g.gpioDevices,
     rtc |-> g.rtc, gyroSample |-> g.gyroSample, gyroEdge |-> g.gyroEdge,
     tiltSampleX |-> g.tiltX, tiltSampleY |-> g.tiltY, tiltState |-> g.tiltState,
     lightCounter |-> g.lightCounter, lightSample |-> g.lightSample,
     lightEdge |-> g.lightEdge]

GBAGPIODeserialize(g, s) ==
    [g EXCEPT !.readWrite = s.readWrite, !.pinState = s.pinState,
              !.direction = s.pinDirection, !.rtc = s.rtc,
              !.gyroSample = s.gyroSample, !.gyroEdge = s.gyroEdge,
              !.tiltX = s.tiltSampleX, !.tiltY = s.tiltSampleY,
              !.tiltState = s.tiltState, !.lightCounter = s.lightCounter,
              !.lightSample = s.lightSample, !.lightEdge = s.lightEdge]

(***************************************************************************)
(* Observers: what the last call was, and the RTC command frame.           *)
(***************************************************************************)
Called(name, address, value, seen) ==
    [name |-> name, address |-> address, value |-> value, seen |-> seen]

NoFrame == [open |-> FALSE, n |-> 0, done |-> 0]

\* the payload sizes of the command table of the data model
PayloadBytes(index) ==
    CASE index = 2 -> 7
      [] index = 4 -> 1
      [] index = 6 -> 3
      [] OTHER -> 0

\* The frame after a DATA write of value in g: a rising clock with chip-select
\* low in step 2 closes it; the eighth rising clock of a byte either opens a new
\* frame (a valid header received while none is running) or counts one exchange.
FrameAfter(f, g, value) ==
    LET seen == DataMerge(g, value)
        rising == Bit(seen, 0) = 1
        cs == Bit(seen, 2) = 1
        running == f.open /\ f.done < f.n
    IN  IF GPIO_RTC \notin g.gpioDevices \/ g.rtc.transferStep # 2 \/ ~rising
        THEN f
        ELSE IF ~cs THEN NoFrame
        ELSE IF g.rtc.bitsRead # 7 THEN f
        ELSE IF ~running /\ dir1(g) = 1 /\ CommandMagic(g.rtc.bits) = 6
             THEN [open |-> TRUE, n |-> PayloadBytes(CommandIndex(g.rtc.bits)),
                   done |-> 0]
        ELSE IF running THEN [f EXCEPT !.done = @ + 1]
        ELSE f

(***************************************************************************)
(* Inputs.                                                                 *)
(***************************************************************************)
Bounded(g) ==
    /\ g.lightCounter <= MaxLightCounter
    /\ g.rtc.bytesRemaining >= 0 - MaxUnderflow

\* Headers: FORCE_RESET, DATETIME, CONTROL, TIME and a byte whose magic is not 6.
\* Payload: a control byte with hour24 clear and one with it set.
SentBytes ==
    [headers |-> {96, 100, 104, 108, 13}, payload |-> {1, 64},
     midByte |-> FALSE, overrun |-> FALSE]

\* The CPU side of an RTC transfer (step 2), for a DATA write of value in g
\* after the call last.  With chip-select high the clock alternates from one
\* DATA write to the next; chip-select is lowered between bytes only.
\* Sending (SIO driven by the CPU): each bit sampled on a low clock extends the
\* low bits of a byte of Sent, a header while no command is active and a payload
\* byte while one is, and the eighth rising clock delivers such a byte.
\* Receiving: the CPU leaves SIO alone, and clocks no bit of the time array
\* that line 238 would index out of range.
\* A CPU with Sent.midByte also lowers chip-select within a byte, and one with
\* Sent.overrun also clocks bits past the payload of a DATETIME or TIME read.
Driver(g, last, value, Sent) ==
    LET seen == DataMerge(g, value)
        k == g.rtc.bitsRead
        low == Bit(seen, 0) = 0
        cs == Bit(seen, 2) = 1
        sending == dir1(g) = 1
        wanted == IF g.rtc.commandActive = 0 THEN Sent.headers ELSE Sent.payload
        shifted == SetBit(g.rtc.bits, k, Bit(seen, 1)) % Pow2(k + 1)
        alternates ==
            (last.name = "GBAGPIOWrite" /\ last.address = GPIO_REG_DATA)
                => Bit(last.value, 0) # Bit(value, 0)
    IN  \/ GPIO_RTC \notin g.gpioDevices
        \/ g.rtc.transferStep # 2
        \/ /\ IF cs THEN alternates ELSE (k = 0 \/ Sent.midByte)
           /\ CASE low /\ sending -> \E b \in wanted : shifted = b % Pow2(k + 1)
                [] low /\ ~sending -> Bit(value, 1) = 0
                [] ~low /\ cs /\ sending -> (k = 7 => g.rtc.bits \in wanted)
                [] ~low /\ cs /\ ~sending ->
                        (Sent.overrun \/ ~TimeIndexOutOfRange(g))
                [] OTHER -> TRUE

(***************************************************************************)
(* Actions: one per entry point.                                           *)
(***************************************************************************)
Start(Hosts, Beyond) ==
    /\ gpio \in {GBAGPIOInit(host, rw, beyond) :
                    host \in Hosts, rw \in {GPIO_WRITE_ONLY, GPIO_READ_WRITE},
                    beyond \in Beyond}
    /\ state = NoState
    /\ op = Called("GBAGPIOInit", 0, 0, 0)
    /\ frame = NoFrame

Attach(name, device, g) ==
    /\ device \notin gpio.gpioDevices
    /\ gpio' = g
    /\ op' = Called(name, 0, 0, 0)
    /\ frame' = IF device = GPIO_RTC THEN NoFrame ELSE frame
    /\ UNCHANGED state

InitRTC == Attach("GBAGPIOInitRTC", GPIO_RTC, GBAGPIOInitRTC(gpio))

InitGyro == Attach("GBAGPIOInitGyro", GPIO_GYRO, GBAGPIOInitGyro(gpio))

InitRumble == Attach("GBAGPIOInitRumble", GPIO_RUMBLE, GBAGPIOInitRumble(gpio))

InitLightSensor ==
    Attach("GBAGPIOInitLightSensor", GPIO_LIGHT_SENSOR, GBAGPIOInitLightSensor(gpio))

InitTilt == Attach("GBAGPIOInitTilt", GPIO_TILT, GBAGPIOInitTilt(gpio))

Clear ==
    /\ gpio.gpioDevices # GPIO_NONE
    /\ gpio' = GBAGPIOClear(gpio)
    /\ op' = Called("GBAGPIOClear", 0, 0, 0)
    /\ frame' = NoFrame
    /\ UNCHANGED state

WriteData(Values, Sent) ==
    \E value \in Values :
        LET g == GBAGPIOWrite(gpio, GPIO_REG_DATA, value)
        IN  /\ Bounded(g)
            /\ Driver(gpio, op, value, Sent)
            /\ gpio' = g
            /\ op' = Called("GBAGPIOWrite", GPIO_REG_DATA, value,
                            DataMerge(gpio, value))
            /\ frame' = FrameAfter(frame, gpio, value)
            /\ UNCHANGED state

WriteRegister(address, Values) ==
    \E value \in Values :
        /\ gpio' = GBAGPIOWrite(gpio, address, value)
        /\ op' = Called("GBAGPIOWrite", address, value, gpio.pinState)
        /\ UNCHANGED <<state, frame>>

WriteDirection(Values) == WriteRegister(GPIO_REG_DIRECTION, Values)

WriteControl(Values) == WriteRegister(GPIO_REG_CONTROL, Values)

\* an offset of the window that is none of the three registers
WriteOther == WriteRegister(3, {0, 15})

TiltAddresses == {32768, 33024, 33280}

TiltValues == {85, 170, 0}

TiltWrite ==
    /\ GPIO_TILT \in gpio.gpioDevices
    /\ \E address \in TiltAddresses : \E value \in TiltValues :
        /\ gpio' = GBAGPIOTiltWrite(gpio, address, value)
        /\ op' = Called("GBAGPIOTiltWrite", address, value, 0)
    /\ UNCHANGED <<state, frame>>

\* op.seen holds the byte returned
TiltRead ==
    /\ GPIO_TILT \in gpio.gpioDevices
    /\ \E address \in {33280, 33536, 33792, 34048, 32768} :
        op' = Called("GBAGPIOTiltRead", address, 0, GBAGPIOTiltRead(gpio, address))
    /\ UNCHANGED <<gpio, state, frame>>

\* the host's rotation source reads new tilt axes
TiltReadings == {(0 - 2147483647) - 1, 0, 88080384}

HostTilts ==
    /\ gpio.p.rotationSource = "full"
    /\ \E x \in TiltReadings : \E y \in TiltReadings :
        /\ <<x, y>> # <<gpio.p.tiltX, gpio.p.tiltY>>
        /\ gpio' = [gpio EXCEPT !.p.tiltX = x, !.p.tiltY = y]
    /\ op' = Called("host", 0, 0, 0)
    /\ UNCHANGED <<state, frame>>

Serialize ==
    /\ state' = GBAGPIOSerialize(gpio)
    /\ state' # state
    /\ op' = Called("GBAGPIOSerialize", 0, 0, 0)
    /\ UNCHANGED <<gpio, frame>>

Deserialize ==
    /\ state.saved
    /\ gpio' = GBAGPIODeserialize(gpio, state)
    /\ op' = Called("GBAGPIODeserialize", 0, 0, 0)
    /\ frame' = NoFrame
    /\ UNCHANGED state

(***************************************************************************)
(* The shared bus with the light sensor and the rumble motor.              *)
(***************************************************************************)
BusHost == [NoHost EXCEPT !.luminanceSource = TRUE, !.luminance = 1, !.rumble = "off"]

BusData == {0, 1, 6, 8, 15}

BusDirections == {0, 5, 7, 15}

InitBus == Start({NoHost, BusHost}, {0})

NextBus ==
    \/ InitLightSensor
    \/ InitRumble
    \/ Clear
    \/ WriteData(BusData, SentBytes)
    \/ WriteDirection(BusDirections)
    \/ WriteControl({0, 1})

SpecBus == InitBus /\ [][NextBus]_vars

(***************************************************************************)
(* The bus with save states.                                               *)
(***************************************************************************)
SaveData == {0, 9}

SaveDirections == {0, 1}

InitSave == Start({BusHost}, {0})

NextSave ==
    \/ InitLightSensor
    \/ Clear
    \/ WriteData(SaveData, SentBytes)
    \/ WriteDirection(SaveDirections)
    \/ WriteControl({0, 1})
    \/ Serialize
    \/ Deserialize

SpecSave == InitSave /\ [][NextSave]_vars

(***************************************************************************)
(* The bus with the RTC alone.                                             *)
(***************************************************************************)
\* SCK, SIO and CS: idle, chip-select low with the clock high, and the four
\* clock phases of a transfer
RtcData == {0, 1, 4, 5, 6}

\* SIO driven by the CPU (7) or by the RTC (5)
RtcDirections == {5, 7}

InitClock == Start({[NoHost EXCEPT !.rtcSource = TRUE]}, {0})

NextClock ==
    \/ InitRTC
    \/ WriteData(RtcData, SentBytes)
    \/ gpio.rtc.bitsRead = 0 /\ WriteDirection(RtcDirections)
    \/ gpio.rtc.bitsRead = 0 /\ WriteControl({1})

SpecClock == InitClock /\ [][NextClock]_vars

(***************************************************************************)
(* The RTC with a CPU that breaks off transfers within a byte.             *)
(***************************************************************************)
\* the header of a TIME read and one payload byte
AbortBytes ==
    [headers |-> {109}, payload |-> {1}, midByte |-> TRUE, overrun |-> FALSE]

InitAbort == Start({[NoHost EXCEPT !.rtcSource = TRUE]}, {0})

NextAbort ==
    \/ InitRTC
    \/ WriteData(RtcData, AbortBytes)
    \/ gpio.rtc.bitsRead = 0 /\ WriteDirection(RtcDirections)
    \/ gpio.rtc.bitsRead = 0 /\ WriteControl({1})

SpecAbort == InitAbort /\ [][NextAbort]_vars

(***************************************************************************)
(* The RTC with a CPU that keeps clocking a read after its payload.        *)
(***************************************************************************)
\* the TIME header
OverrunBytes ==
    [headers |-> {108}, payload |-> {1}, midByte |-> FALSE, overrun |-> TRUE]

\* the byte behind rtc.time is all zeros or all ones
InitOverrun == Start({[NoHost EXCEPT !.rtcSource = TRUE]}, {0, 255})

NextOverrun ==
    \/ InitRTC
    \/ WriteData(RtcData, OverrunBytes)
    \/ gpio.rtc.bitsRead = 0 /\ WriteDirection(RtcDirections)
    \/ gpio.rtc.bitsRead = 0 /\ WriteControl({1})

SpecOverrun == InitOverrun /\ [][NextOverrun]_vars

(***************************************************************************)
(* The bus with the light sensor alone.                                    *)
(***************************************************************************)
\* hosts without a luminance source, and with one that reads 0 or 2
LightHosts ==
    {NoHost} \cup {[NoHost EXCEPT !.luminanceSource = TRUE, !.luminance = s] :
                    s \in {0, 2}}

\* pin 0 is the clock, pin 1 the reset, pin 2 the chip-select
LightData == {0, 1, 2, 3, 4, 9}

LightDirections == {0, 7, 15}

InitLight == Start(LightHosts, {0})

NextLight ==
    \/ InitLightSensor
    \/ WriteData(LightData, SentBytes)
    \/ WriteDirection(LightDirections)
    \/ WriteControl({0, 1})

SpecLight == InitLight /\ [][NextLight]_vars

(***************************************************************************)
(* The tilt sensor.                                                        *)
(***************************************************************************)
\* no rotation source, one without tilt axes, one with them
TiltHosts == {[NoHost EXCEPT !.rotationSource = r] : r \in {"none", "gyro", "full"}}

InitTiltSensor == Start(TiltHosts, {0})

NextTilt ==
    \/ InitTilt
    \/ TiltWrite
    \/ TiltRead
    \/ HostTilts

SpecTilt == InitTiltSensor /\ [][NextTilt]_vars

(***************************************************************************)
(* The bus with the gyro and the rumble motor.                             *)
(***************************************************************************)
\* a rotation source whose gyro reads 0x2A00000, and a rumble backend
MotionHost ==
    [NoHost EXCEPT !.rotationSource = "gyro", !.gyroZ = 44040192, !.rumble = "off"]

\* pin 0 latches the gyro sample, pin 1 clocks it out, pin 3 is the motor
MotionData == {0, 1, 2, 8, 10}

\* pin 2 device-driven (11), and all four pins CPU-driven (15)
MotionDirections == {11, 15}

InitMotion == Start({MotionHost}, {0})

NextMotion ==
    \/ InitGyro
    \/ InitRumble
    \/ WriteData(MotionData, SentBytes)
    \/ WriteDirection(MotionDirections)
    \/ WriteControl({0, 1})

SpecMotion == InitMotion /\ [][NextMotion]_vars

(***************************************************************************)
(* The register window with save states and no device.                     *)
(***************************************************************************)
InitWindow == Start({NoHost}, {0})

NextWindow ==
    \/ WriteData(SaveData, SentBytes)
    \/ WriteDirection(SaveDirections)
    \/ WriteControl({0, 1})
    \/ WriteOther
    \/ Serialize
    \/ Deserialize

SpecWindow == InitWindow /\ [][NextWindow]_vars

(***************************************************************************)
(* Properties of the register interface.                                   *)
(***************************************************************************)
Visible == gpio.readWrite # 0

AfterDataWrite == op.name = "GBAGPIOWrite" /\ op.address = GPIO_REG_DATA

\* C1: in the state a DATA write leaves, with read_write_visible true, every
\* published bit whose direction bit is set equals the bit the CPU wrote for
\* that pin in this write, whichever devices ran during the write.
C1_DirectionGating ==
    (AfterDataWrite /\ Visible) =>
        And(gpio.gpioBase, gpio.direction) = And(op.value, gpio.direction)

\* C2: with no device attached and read_write_visible true, a DATA write of v
\* under direction d publishes v AND d.
C2_PublishesDrivenBits ==
    (AfterDataWrite /\ Visible /\ gpio.gpioDevices = GPIO_NONE) =>
        gpio.gpioBase = And(op.value, gpio.direction)

AllSourcesAbsent ==
    /\ ~gpio.p.rtcSource
    /\ gpio.p.rotationSource = "none"
    /\ gpio.p.rumble = "none"
    /\ ~gpio.p.luminanceSource

\* the pins of word that are device-driven after the step and were 0 in old
RaisedDevicePins(old, word, direction) == AndNot(AndNot(word, direction), old)

\* C3: with every host source absent, no step turns a pin whose direction bit
\* is clear from 0 to 1, in pin_state or in the published register.
C3_DeviceContainment ==
    [][AllSourcesAbsent =>
        /\ RaisedDevicePins(gpio.pinState, gpio'.pinState, gpio'.direction) = 0
        /\ RaisedDevicePins(gpio.gpioBase, gpio'.gpioBase, gpio'.direction) = 0]_vars

(***************************************************************************)
(* Properties of save states.                                              *)
(***************************************************************************)
\* the snapshot of g restored into a freshly initialised bus of the same host
Restored(g) ==
    GBAGPIODeserialize(GBAGPIOInit(g.p, GPIO_WRITE_ONLY, g.beyond), GBAGPIOSerialize(g))

\* what a caller can observe of a bus: the attached devices, the published word,
\* the device states and the rumble sink
Observable(g) ==
    [devices |-> g.gpioDevices, word |-> g.gpioBase, rtc |-> g.rtc,
     gyro |-> <<g.gyroSample, g.gyroEdge>>,
     light |-> <<g.lightCounter, g.lightSample, g.lightEdge>>,
     tilt |-> <<g.tiltX, g.tiltY, g.tiltState>>, rumble |-> g.p.rumble]

\* C4: the snapshot of any reachable bus, restored into a fresh bus, gives a bus
\* with the same attached devices that publishes the same word and reaches the
\* same device states after any next GPIO write or tilt write.
C4_RoundTrip ==
    LET r == Restored(gpio)
    IN  /\ r.gpioDevices = gpio.gpioDevices
        /\ \A address \in {GPIO_REG_DATA, GPIO_REG_DIRECTION, GPIO_REG_CONTROL} :
            \A value \in SaveData :
                Observable(GBAGPIOWrite(r, address, value))
                    = Observable(GBAGPIOWrite(gpio, address, value))
        /\ \A address \in TiltAddresses : \A value \in TiltValues :
                Observable(GBAGPIOTiltWrite(r, address, value))
                    = Observable(GBAGPIOTiltWrite(gpio, address, value))

\* C5: whenever read_write_visible is false the published word is 0.
C5_WriteOnlyPublishesZero == ~Visible => gpio.gpioBase = 0

(***************************************************************************)
(* Properties of the RTC.                                                  *)
(***************************************************************************)
Running == frame.open /\ frame.done < frame.n

\* C6: after a valid command header whose table entry is N payload bytes, and
\* until chip-select is pulled low, command_active is true exactly while fewer
\* than N complete byte exchanges (in either direction) have followed the
\* header: it is false after the N-th, and for N = 0 right after the header.
C6_CommandFraming == (gpio.rtc.commandActive # 0) <=> Running

\* a DATETIME frame whose seventh payload byte has been exchanged
C6_FrameCompleted ==
    /\ frame.open /\ frame.n = 7 /\ frame.done = 7
    /\ gpio.rtc.commandActive = 0
    /\ CommandIndex(gpio.rtc.command) = RTC_DATETIME

WritesData == op'.name = "GBAGPIOWrite" /\ op'.address = GPIO_REG_DATA

\* C8: while the RTC is in step 0 or 1, a step changes its state only by
\* advancing the step by one, from 0 on a DATA write observed with SCK=1, CS=0
\* and from 1 on a DATA write observed with SCK=1, CS=1; every other step leaves
\* the whole RTC state as it was, so step 1 never returns to step 0 and step 2
\* is reached only through both observations in this order.
C8_Handshake ==
    [][(GPIO_RTC \in gpio.gpioDevices /\ gpio.rtc.transferStep \in {0, 1}) =>
        LET step == gpio.rtc.transferStep
            pattern == And(op'.seen, 5)
            advances == /\ WritesData
                        /\ \/ step = 0 /\ pattern = 1
                           \/ step = 1 /\ pattern = 5
        IN  gpio'.rtc = IF advances
                        THEN [gpio.rtc EXCEPT !.transferStep = step + 1]
                        ELSE gpio.rtc]_vars

\* the DATA write that took the RTC from step 1 to step 2
C8_TransferStarted ==
    /\ AfterDataWrite /\ And(op.seen, 5) = 5
    /\ gpio.rtc.transferStep = 2
    /\ gpio.rtc.bitsRead = 0 /\ gpio.rtc.command = 0 /\ ~frame.open

\* the byte a device-to-CPU clock selects: the control register for CONTROL, and
\* for a running DATETIME or TIME frame the next byte of the time array, which
\* starts at time[0] for DATETIME and at time[4] for TIME
Selected(g, f) ==
    LET index == CommandIndex(g.rtc.command)
    IN  CASE index = RTC_CONTROL -> g.rtc.control
          [] index = RTC_DATETIME -> g.rtc.time[f.done + 1]
          [] index = RTC_TIME -> g.rtc.time[4 + f.done + 1]

\* C9: in step 2 with read_write_visible true, a DATA write observed with SCK=1
\* and CS=1 while SIO is device-driven (dir1 = 0) leaves on pin 1 bit k of the
\* selected byte, k being the number of bits already clocked of this byte.
C9_ReadBit ==
    [][(/\ GPIO_RTC \in gpio.gpioDevices
        /\ WritesData /\ And(op'.seen, 5) = 5
        /\ gpio.rtc.transferStep = 2 /\ dir1(gpio) = 0 /\ Visible
        /\ \/ CommandIndex(gpio.rtc.command) = RTC_CONTROL
           \/ CommandIndex(gpio.rtc.command) \in {RTC_DATETIME, RTC_TIME} /\ Running)
       => LET bit == Bit(Selected(gpio, frame), gpio.rtc.bitsRead)
          IN  /\ Bit(gpio'.gpioBase, 1) = bit
              /\ p1(gpio') = bit]_vars

\* the second clock of the third byte of a TIME read has driven bit 1 of time[6]
C9_SecondsBitRead ==
    /\ AfterDataWrite /\ And(op.seen, 5) = 5
    /\ gpio.rtc.transferStep = 2 /\ dir1(gpio) = 0 /\ Visible
    /\ CommandIndex(gpio.rtc.command) = RTC_TIME
    /\ frame.open /\ frame.n = 3 /\ frame.done = 2
    /\ gpio.rtc.bitsRead = 2
    /\ Bit(gpio.gpioBase, 1) = 1 /\ Bit(gpio.rtc.time[7], 1) = 1

(***************************************************************************)
(* Properties of the light sensor.                                         *)
(***************************************************************************)
\* C7: on a DATA write observed with chip-select (pin 2) low, the light sensor
\* restarts its counter and latches the sample when pin 1 is high, counts the
\* write when pin 0 is high after a write that saw it low, and, with pin 3
\* device-driven and read_write_visible true, publishes pin 3 high exactly when
\* the counter has reached the sample: low while fewer than s edges are counted,
\* high from the write that counts the s-th, and for s = 0 from the reset.
C7_LightTermination ==
    [][(/\ GPIO_LIGHT_SENSOR \in gpio.gpioDevices
        /\ WritesData /\ Bit(op'.seen, 2) = 0)
       => LET reset == Bit(op'.seen, 1) = 1
              rising == Bit(op'.seen, 0) = 1 /\ gpio.lightEdge
              counted == (IF reset THEN 0 ELSE gpio.lightCounter)
                            + (IF rising THEN 1 ELSE 0)
              s == IF ~reset THEN gpio.lightSample
                   ELSE IF gpio.p.luminanceSource THEN gpio.p.luminance ELSE 255
          IN  /\ gpio'.lightCounter = counted
              /\ gpio'.lightSample = s
              /\ (Bit(gpio.direction, 3) = 0 /\ Visible) =>
                    (Bit(gpio'.gpioBase, 3) = 1 <=> counted >= s)]_vars

\* the write that counts the second edge of a sample of 2 raises pin 3
C7_SecondEdgeRaisesPin ==
    /\ GPIO_LIGHT_SENSOR \in gpio.gpioDevices
    /\ AfterDataWrite /\ And(op.seen, 7) = 1
    /\ Bit(gpio.direction, 3) = 0 /\ Visible
    /\ gpio.lightSample = 2 /\ gpio.lightCounter = 2
    /\ Bit(gpio.gpioBase, 3) = 1

(***************************************************************************)
(* Properties of the tilt sensor.                                          *)
(***************************************************************************)
\* C10: the latched tilt values change only in a write of 0xAA to 0x8100 made
\* while unlock is 1, and unlock becomes 1 only in a write of 0x55 to 0x8000;
\* that write of 0xAA clears unlock, latches the normalised axes of a rotation
\* source that has them and keeps the values otherwise; every other tilt write
\* leaves x, y and unlock unchanged.
C10_TiltLatch ==
    [][(GPIO_TILT \in gpio.gpioDevices) =>
        LET writes == op'.name = "GBAGPIOTiltWrite"
            arms == writes /\ op'.address = 32768 /\ op'.value = 85
            latches == /\ writes /\ op'.address = 33024 /\ op'.value = 170
                       /\ gpio.tiltState = 1
            latched == <<gpio.tiltX, gpio.tiltY>>
        IN  /\ <<gpio'.tiltX, gpio'.tiltY>> # latched => latches
            /\ (gpio'.tiltState = 1 /\ gpio.tiltState # 1) => arms
            /\ arms => gpio'.tiltState = 1
            /\ latches =>
                /\ gpio'.tiltState = 0
                /\ <<gpio'.tiltX, gpio'.tiltY>> =
                        IF gpio.p.rotationSource = "full"
                        THEN <<TiltNormalize(gpio.p.tiltX), TiltNormalize(gpio.p.tiltY)>>
                        ELSE latched
            /\ (writes /\ ~arms /\ ~latches) =>
                    (<<gpio'.tiltX, gpio'.tiltY>> = latched
                        /\ gpio'.tiltState = gpio.tiltState)]_vars

\* an unlocked write of 0xAA to 0x8100 has latched the axes of the source
C10_AxesLatched ==
    /\ op.name = "GBAGPIOTiltWrite" /\ op.address = 33024 /\ op.value = 170
    /\ gpio.p.rotationSource = "full" /\ gpio.p.tiltX = 88080384
    /\ gpio.tiltState = 0
    /\ gpio.tiltX = 970

(***************************************************************************)
(* Properties of the rumble motor, the output helper and the gyro.         *)
(***************************************************************************)
\* C11: with rumble attached, a rumble sink installed and pin 3 CPU-driven,
\* after every DATA write the sink is on exactly when the CPU wrote pin 3 high
\* in that write, whichever other devices ran before the rumble handler.
C11_RumbleFollowsPin3 ==
    (/\ AfterDataWrite
     /\ GPIO_RUMBLE \in gpio.gpioDevices
     /\ gpio.p.rumble # "none"
     /\ Bit(gpio.direction, 3) = 1)
    => (gpio.p.rumble = "on" <=> Bit(op.value, 3) = 1)

\* C12: after a DATA write in which the light sensor drove output through the
\* output helper (chip-select observed low, read_write_visible true), the
\* CPU-driven bits of pin_state are those the write merged into it.
C12_HelperKeepsDrivenBits ==
    (/\ AfterDataWrite /\ Visible
     /\ GPIO_LIGHT_SENSOR \in gpio.gpioDevices
     /\ Bit(op.seen, 2) = 0)
    => And(gpio.pinState, gpio.direction) = And(op.seen, gpio.direction)

\* C13: with the gyro attached, a rotation source installed, pin 1 CPU-driven
\* and read_write_visible true, after every DATA write edge equals the pin 1
\* level the CPU wrote in that write (so that the gyro shifts once per
\* high-to-low transition of that level and on no other write).
C13_GyroEdgeFollowsPin1 ==
    (/\ AfterDataWrite /\ Visible
     /\ GPIO_GYRO \in gpio.gpioDevices
     /\ gpio.p.rotationSource # "none"
     /\ Bit(gpio.direction, 1) = 1)
    => gpio.gyroEdge = Bit(op.value, 1)

(***************************************************************************)
(* Further properties of the RTC.                                          *)
(***************************************************************************)
\* C14: in step 2 a DATA write observed with SCK=1 and CS=0 aborts the transfer
\* wherever it stands: afterwards bits_read = 0, bytes_remaining = 0,
\* command_active and command.reading are false and the step is 0; and step 2
\* is never entered from step 0 directly, so a new transfer needs both updates
\* of the handshake again.
C14_Abort ==
    [][(GPIO_RTC \in gpio.gpioDevices /\ WritesData) =>
        /\ (gpio.rtc.transferStep = 2 /\ And(op'.seen, 5) = 1) =>
                /\ gpio'.rtc.bitsRead = 0
                /\ gpio'.rtc.bytesRemaining = 0
                /\ gpio'.rtc.commandActive = 0
                /\ CommandReading(gpio'.rtc.command) = 0
                /\ gpio'.rtc.transferStep = 0
        /\ (gpio.rtc.transferStep = 0 => gpio'.rtc.transferStep \in {0, 1})]_vars

\* a TIME read broken off after the first bit of a payload byte was sent
C14_AbortedInByte ==
    /\ AfterDataWrite /\ And(op.seen, 5) = 1
    /\ gpio.rtc.transferStep = 0
    /\ gpio.rtc.command = 108 /\ gpio.rtc.bits = 1
    /\ gpio.rtc.bytesRemaining = 0 /\ gpio.rtc.commandActive = 0

\* the eighth rising clock of a byte the CPU sends in step 2
DeliversByte ==
    /\ GPIO_RTC \in gpio.gpioDevices /\ WritesData
    /\ gpio.rtc.transferStep = 2 /\ And(op'.seen, 5) = 5
    /\ dir1(gpio) = 1 /\ gpio.rtc.bitsRead = 7

\* C15: once the RTC is attached (control = 0x40), a step changes control only
\* by delivering a valid FORCE_RESET header while no command is active, which
\* sets it to 0, or the payload byte of an active CONTROL command in the
\* CPU-to-device direction, which sets it to that byte.
C15_ControlWrites ==
    [][(GPIO_RTC \in gpio.gpioDevices) =>
        LET resets == /\ DeliversByte /\ gpio.rtc.commandActive = 0
                      /\ CommandMagic(gpio.rtc.bits) = 6
                      /\ CommandIndex(gpio.rtc.bits) = RTC_RESET
            stores == /\ DeliversByte /\ gpio.rtc.commandActive # 0
                      /\ CommandIndex(gpio.rtc.command) = RTC_CONTROL
        IN  gpio'.rtc.control = IF resets THEN 0
                                ELSE IF stores THEN gpio.rtc.bits
                                ELSE gpio.rtc.control]_vars

\* the payload byte 0x01 of a CONTROL command has been stored
C15_ControlStored ==
    /\ AfterDataWrite /\ And(op.seen, 5) = 5 /\ dir1(gpio) = 1
    /\ gpio.rtc.command = 104 /\ frame.open /\ frame.n = 1 /\ frame.done = 1
    /\ gpio.rtc.bitsRead = 0
    /\ gpio.rtc.control = 1

\* C16: a complete byte received while no command is active whose magic is not
\* 0x6 is dropped: command, control and time keep their values, command_active
\* stays false and bits and bits_read are 0, so the next byte is a header again.
C16_InvalidHeaderDropped ==
    [][(/\ DeliversByte /\ gpio.rtc.commandActive = 0
        /\ CommandMagic(gpio.rtc.bits) # 6)
       => /\ gpio'.rtc.command = gpio.rtc.command
          /\ gpio'.rtc.control = gpio.rtc.control
          /\ gpio'.rtc.time = gpio.rtc.time
          /\ gpio'.rtc.commandActive = 0
          /\ gpio'.rtc.bits = 0 /\ gpio'.rtc.bitsRead = 0
          /\ gpio'.rtc.transferStep = 2]_vars

\* the byte 0x0D has been dropped as the first byte of the first transfer
C16_ByteDropped ==
    /\ AfterDataWrite /\ And(op.seen, 5) = 5 /\ dir1(gpio) = 1
    /\ gpio.rtc.transferStep = 2
    /\ gpio.rtc.bitsRead = 0 /\ gpio.rtc.bits = 0
    /\ gpio.rtc.command = 0 /\ gpio.rtc.commandActive = 0
    /\ gpio.rtc.bytesRemaining = 0 - 1

\* C18: whenever a device-to-CPU rising clock in step 2 selects a byte of the
\* time array (command index DATETIME or TIME), the index 7 - bytes_remaining
\* lies in 0..6.
C18_TimeIndexInRange ==
    [][(/\ GPIO_RTC \in gpio.gpioDevices /\ WritesData
        /\ gpio.rtc.transferStep = 2 /\ And(op'.seen, 5) = 5
        /\ dir1(gpio) = 0
        /\ CommandIndex(gpio.rtc.command) \in {RTC_DATETIME, RTC_TIME})
       => 7 - gpio.rtc.bytesRemaining \in 0..6]_vars

\* C19: on a bus whose RTC was initialised, transfer_step is 0, 1 or 2,
\* bits_read is in 0..7, and command_active implies transfer_step = 2 and
\* 1 <= bytes_remaining <= 7.
C19_RtcRanges ==
    GPIO_RTC \in gpio.gpioDevices =>
        /\ gpio.rtc.transferStep \in {0, 1, 2}
        /\ gpio.rtc.bitsRead \in 0..7
        /\ gpio.rtc.commandActive # 0 =>
                (gpio.rtc.transferStep = 2 /\ gpio.rtc.bytesRemaining \in 1..7)

\* a DATETIME header has just been decoded
C19_DatetimeActive ==
    /\ AfterDataWrite
    /\ gpio.rtc.commandActive # 0 /\ gpio.rtc.bytesRemaining = 7
    /\ gpio.rtc.transferStep = 2 /\ gpio.rtc.bitsRead = 0

(***************************************************************************)
(* Properties of the other offsets and of GBAGPIOClear.                    *)
(***************************************************************************)
\* C17: a GPIO write to an offset other than DATA, DIRECTION and CONTROL leaves
\* pin_state, direction, read_write_visible, every device's state and the
\* published word as they were, in every reachable state.
C17_OtherOffsetIgnored ==
    [][(/\ op'.name = "GBAGPIOWrite"
        /\ op'.address \notin {GPIO_REG_DATA, GPIO_REG_DIRECTION, GPIO_REG_CONTROL})
       => gpio' = gpio]_vars

\* C20: GBAGPIOClear leaves no device attached, pin_state = 0, direction = 0
\* and read_write_visible false.
C20_ClearResets ==
    op.name = "GBAGPIOClear" =>
        /\ gpio.gpioDevices = GPIO_NONE
        /\ gpio.pinState = 0
        /\ gpio.direction = 0
        /\ gpio.readWrite = GPIO_WRITE_ONLY

=============================================================================
